---- MODULE Spec2Model ----
(***************************************************************************)
(* Model of the chunking / vectorization / retrieval pipeline of the       *)
(* arXiv RAG example (preprocessor.py, vectorizer.py).                     *)
(*                                                                         *)
(* Python strings are sequences of characters, each written as a short     *)
(* string ("a", "#", "NBSP"); the empty string is << >>.                    *)
(* A Python value that may be None is a sequence of length 0 or 1:         *)
(* None is << >> and the value v is << v >>.                               *)
(***************************************************************************)
EXTENDS Integers, Sequences, FiniteSets, TLC

VARIABLES
    \* ---- ArXivPreprocessor.preprocess_paper -------------------------------
    speed,            \* ArXivPreprocessor(speed=...): 0 statistical, 1 rolling window
    paper,            \* the Paper row handed to preprocess_paper
    chunks,           \* local `chunks` of the last call (what the chunker returned)
    chunks_metadata,  \* local `chunks_metadata` of the last call
    pp_outcome,       \* how the last call ended: "idle","skipped","returned","raised"
    pp_return,        \* the value the last call returned (None or the chunk list)
    pp_fault,         \* what raised in the last call: "none","chunker","sum"
    chunker_called,   \* whether the last call reached self.chunker(...)
    \* ---- Vectorizer.vectorize_and_store -----------------------------------
    batch_size,       \* self.batch_size
    metadata_list,    \* the argument of the call
    vs_pc,            \* position in the call: "start","loop","done"
    total_chunks,     \* local total_chunks
    batches,          \* local batches = list(self.batch_generator(metadata_list))
    batch_no,         \* number of loop iterations completed
    processed_chunks, \* local processed_chunks
    failed_chunks,    \* local failed_chunks
    encoder_calls,    \* the texts of every self.encoder(texts) call, in order
    upsert_calls,     \* the vectors of every self.index.upsert call, in order
    batch_outcomes,   \* what the collaborators did in each iteration
    index_store,      \* the vector index: id -> stored metadata
    stats,            \* the returned statistics (None until the call returns)
    \* ---- Vectorizer.query -------------------------------------------------
    include_context,  \* the argument include_context
    top_k,            \* the argument top_k
    q_pc,             \* position in the call: "start","loop","done","raised"
    q_fault,          \* the collaborator call that raised, "none" if none did
    results,          \* results["matches"] as the index returned them
    match_no,         \* number of loop iterations completed
    fetch_calls,      \* the ids of every self.index.fetch call, in order
    matches,          \* local `matches`, the list being built
    q_return,         \* the returned list (None until the call returns)
    \* ---- ArXivPreprocessor.clean_text --------------------------------------
    ct_input,         \* the text handed to clean_text (may be None)
    ct_once,          \* clean_text(ct_input), None until computed
    ct_twice,         \* clean_text(clean_text(ct_input)), None until computed
    \* ---- process_papers_batch ---------------------------------------------
    pb_papers,        \* the argument papers: the rows as the session holds them
    pb_batch_size,    \* the argument batch_size
    has_vectorizer,   \* whether the argument vectorizer is set
    pb_pc,            \* position: "pre","flush","commit","final_flush",
                      \*   "final_commit","summary","done"
    pb_i,             \* the loop's i: papers whose iteration has begun
    successful,       \* local successful
    failed,           \* local failed
    current_batch_chunks, \* local current_batch_chunks
    pb_flushed,       \* whether the flush step just taken called vectorize_and_store
    pb_outcomes,      \* per paper so far: how preprocess_paper ended and what it returned
    vs_calls,         \* the metadata_list of every vectorize_and_store call, in order
    db_committed,     \* per paper, the counters the database holds (committed)
    commit_log,       \* the outcome of every session.commit(), in order
    summary,          \* the counts of the final summary (None until it is logged)
    \* ---- load_dataset_todb -------------------------------------------------
    ld_dataset,       \* the argument dataset: the ids of its papers
    ld_batch_size,    \* the argument batch_size
    ld_pc,            \* position: "load","commit","final_commit","summary","done"
    ld_i,             \* the loop's i
    successful_loads, \* local successful_loads
    failed_loads,     \* local failed_loads
    ld_pending,       \* the papers added to the session and not yet committed
    ld_db,            \* the papers the database holds (committed)
    ld_commit_log,    \* the outcome of every session.commit(), in order
    ld_summary,       \* the counts of the final summary (None until it is logged)
    \* ---- RAGAgent ----------------------------------------------------------
    heap,             \* the list objects: heap[1] is the list of the default
                      \*   argument `chat_history: list = []`
    ag_list,          \* per agent, which list self.chat_history refers to (0: the
                      \*   agent is not constructed yet)
    ag_last,          \* the call just made: method, agent, input, whether it succeeded
    ag_returned,      \* what the last query or get_chat_history returned
    \* ---- process_existing_papers -------------------------------------------
    ex_paper_count,   \* query.count(): the rows of the papers table
    stop_at,          \* the argument stop_at
    start_offset,     \* the argument start_offset
    ex_batch_size,    \* the argument batch_size
    ex_pc,            \* position: "start","loop","stats","done"
    ex_total_papers,  \* local total_papers
    ex_offset,        \* local offset
    ex_processed,     \* local processed
    ex_failed,        \* local failed
    ex_pages,         \* per iteration so far: the offset, the size of the page
                      \*   handed to process_papers_batch, and how the iteration went
    ex_stats          \* the returned stats (None until the function returns)

chunkVars == <<speed, paper, chunks, chunks_metadata, pp_outcome, pp_return,
               pp_fault, chunker_called>>

vecVars == <<batch_size, metadata_list, vs_pc, total_chunks, batches, batch_no,
             processed_chunks, failed_chunks, encoder_calls, upsert_calls,
             batch_outcomes, index_store, stats>>

queryVars == <<include_context, top_k, q_pc, q_fault, results, match_no,
               fetch_calls, matches, q_return>>

cleanVars == <<ct_input, ct_once, ct_twice>>

batchVars == <<pb_papers, pb_batch_size, has_vectorizer, pb_pc, pb_i, successful,
               failed, current_batch_chunks, pb_flushed, pb_outcomes, vs_calls,
               db_committed, commit_log, summary>>

loadVars == <<ld_dataset, ld_batch_size, ld_pc, ld_i, successful_loads, failed_loads,
              ld_pending, ld_db, ld_commit_log, ld_summary>>

\* the components added after the pipeline's core
agentVars == <<heap, ag_list, ag_last, ag_returned>>

existVars == <<ex_paper_count, stop_at, start_offset, ex_batch_size, ex_pc,
               ex_total_papers, ex_offset, ex_processed, ex_failed, ex_pages, ex_stats>>

restVars == <<loadVars, agentVars, existVars>>

vars == <<chunkVars, vecVars, queryVars, cleanVars, batchVars, restVars>>

\* what each component leaves alone
notChunk == <<vecVars, queryVars, cleanVars, batchVars, restVars>>
notVec   == <<chunkVars, queryVars, cleanVars, batchVars, restVars>>
notQuery == <<chunkVars, vecVars, cleanVars, batchVars, restVars>>
notClean == <<chunkVars, vecVars, queryVars, batchVars, restVars>>
notBatch == <<queryVars, cleanVars, restVars>>
coreVars == <<chunkVars, vecVars, queryVars, cleanVars, batchVars>>
notLoad  == <<coreVars, agentVars, existVars>>
notAgent == <<coreVars, loadVars, existVars>>
notExist == <<coreVars, loadVars, agentVars>>

-----------------------------------------------------------------------------
(* Bounds *)

MaxChunks == 3        \* chunk lists up to this length carry every mix of splits
MaxLongChunks == 11   \* longer, uniform chunk lists reach two-digit ordinals
MaxRecords == 5       \* longest metadata_list handed to vectorize_and_store
MaxBatchSize == 3     \* largest Vectorizer.batch_size
MaxQueryChunks == 3   \* chunks of the paper whose records the queried index holds
MaxTopK == 2          \* largest top_k handed to query
MaxTextLen == 3       \* longest text handed to clean_text
MaxPapers == 2        \* longest papers list handed to process_papers_batch
MaxPbChunks == 2      \* most chunks the chunker returns for one of those papers
MaxPbBatchSize == 2   \* largest batch_size of process_papers_batch and its vectorizer
MaxDataset == 4       \* longest dataset handed to load_dataset_todb
MaxPaperCount == 3    \* most rows of the papers table; stop_at goes one beyond
MaxExBatchSize == 3   \* largest batch_size of process_existing_papers
MaxLists == 3         \* most list objects the agents' calls create, the default's included
MaxHistory == 3       \* a query is made only on a history shorter than this

-----------------------------------------------------------------------------
(* Python values *)

None == << >>
Some(v) == << v >>
IsNone(o) == o = << >>
Get(o) == o[1]

\* Python truthiness of an optional string: None and "" are falsy
Falsy(o) == IsNone(o) \/ Get(o) = << >>

Min(a, b) == IF a < b THEN a ELSE b

DigitChars == <<"0", "1", "2", "3", "4", "5", "6", "7", "8", "9">>

\* str(n) for a non-negative integer, as an f-string formats it
RECURSIVE IntToStr(_)
IntToStr(n) ==
    IF n < 10 THEN << DigitChars[n + 1] >>
    ELSE IntToStr(n \div 10) \o << DigitChars[(n % 10) + 1] >>

\* ' '.join(parts) for a list of strings
RECURSIVE JoinSpace(_)
JoinSpace(parts) ==
    IF Len(parts) = 0 THEN << >>
    ELSE IF Len(parts) = 1 THEN parts[1]
    ELSE parts[1] \o << " " >> \o JoinSpace(Tail(parts))

\* sum(...) over a list of optional integers; defined only when none is None
RECURSIVE SumInts(_)
SumInts(s) == IF Len(s) = 0 THEN 0 ELSE Get(s[1]) + SumInts(Tail(s))

-----------------------------------------------------------------------------
(* Chunker wrappers (the external chunker's splits are inputs) *)

\* One split as the external library reports it
Split(parts, tc, sc) == [splits |-> parts, token_count |-> tc, triggered_score |-> sc]

\* StatisticalChunkerWrapper.__call__
StatisticalChunkerWrapper(splits) ==
    [k \in 1..Len(splits) |->
        [text        |-> JoinSpace(splits[k].splits),
         token_count |-> IF ~IsNone(splits[k].token_count)
                         THEN splits[k].token_count ELSE Some(0),
         score       |-> splits[k].triggered_score]]

\* RollingWindowWrapper.__call__ (split.content is the joined split)
RollingWindowWrapper(splits) ==
    [k \in 1..Len(splits) |->
        [text        |-> JoinSpace(splits[k].splits),
         token_count |-> splits[k].token_count,
         score       |-> splits[k].triggered_score]]

\* self.chunker(docs=[content]) as ArXivPreprocessor.__init__ selected it
Chunker(spd, splits) ==
    IF spd = 0 THEN StatisticalChunkerWrapper(splits) ELSE RollingWindowWrapper(splits)

-----------------------------------------------------------------------------
(* ArXivPreprocessor.build_chunk_metadata *)

\* Mutant: the ordinal is formatted one-based
ChunkId_OneBased(arxiv_id, i) == arxiv_id \o << "#" >> \o IntToStr(i + 1)

\* f"{arxiv_id}#{i}"
ChunkId(arxiv_id, i) == arxiv_id \o << "#" >> \o IntToStr(i)

\* Mutant: the end-of-list test compares i with len(chunks) instead of i+1
build_chunk_metadata_LastLinked(p, cs) ==
    [k \in 1..Len(cs) |->
        LET i == k - 1 IN
        [id             |-> ChunkId(p.arxiv_id, i),
         title          |-> p.title,
         content        |-> cs[k].text,
         prechunk_id    |-> IF i = 0 THEN << >> ELSE ChunkId(p.arxiv_id, i - 1),
         postchunk_id   |-> IF i = Len(cs) THEN << >> ELSE ChunkId(p.arxiv_id, i + 1),
         arxiv_id       |-> p.arxiv_id,
         references     |-> p.citations,
         chunk_index    |-> i,
         token_count    |-> cs[k].token_count,
         semantic_score |-> cs[k].score]]

build_chunk_metadata(p, cs) ==
    [k \in 1..Len(cs) |->
        LET i == k - 1 IN
        [id             |-> ChunkId(p.arxiv_id, i),
         title          |-> p.title,
         content        |-> cs[k].text,
         prechunk_id    |-> IF i = 0 THEN << >> ELSE ChunkId(p.arxiv_id, i - 1),
         postchunk_id   |-> IF i + 1 = Len(cs) THEN << >> ELSE ChunkId(p.arxiv_id, i + 1),
         arxiv_id       |-> p.arxiv_id,
         references     |-> p.citations,
         chunk_index    |-> i,
         token_count    |-> cs[k].token_count,
         semantic_score |-> cs[k].score]]

-----------------------------------------------------------------------------
(* ArXivPreprocessor.preprocess_paper *)

TokenCounts(md) == [k \in 1..Len(md) |-> md[k].token_count]

\* Mutant: the chunk list is returned without writing the counters back
preprocess_paper_NoWriteBack(p, spd, chunkerRaises, splits) ==
    IF Falsy(p.content) THEN
        [paper |-> p, chunks |-> << >>, chunks_metadata |-> << >>,
         outcome |-> "skipped", ret |-> None, fault |-> "none", called |-> FALSE]
    ELSE IF chunkerRaises THEN
        [paper |-> p, chunks |-> << >>, chunks_metadata |-> << >>,
         outcome |-> "raised", ret |-> None, fault |-> "chunker", called |-> TRUE]
    ELSE
        LET cs == Chunker(spd, splits)
            md == build_chunk_metadata(p, cs)
        IN  IF \E k \in 1..Len(md) : IsNone(md[k].token_count) THEN
                [paper |-> p, chunks |-> cs, chunks_metadata |-> md,
                 outcome |-> "raised", ret |-> None, fault |-> "sum", called |-> TRUE]
            ELSE
                [paper |-> p, chunks |-> cs, chunks_metadata |-> md,
                 outcome |-> "returned", ret |-> Some(md), fault |-> "none", called |-> TRUE]

\* Mutant: an exception of the chunker is swallowed and None is returned
preprocess_paper_SwallowsChunkerError(p, spd, chunkerRaises, splits) ==
    IF Falsy(p.content) THEN
        [paper |-> p, chunks |-> << >>, chunks_metadata |-> << >>,
         outcome |-> "skipped", ret |-> None, fault |-> "none", called |-> FALSE]
    ELSE IF chunkerRaises THEN
        [paper |-> p, chunks |-> << >>, chunks_metadata |-> << >>,
         outcome |-> "skipped", ret |-> None, fault |-> "chunker", called |-> TRUE]
    ELSE
        LET cs == Chunker(spd, splits)
            md == build_chunk_metadata(p, cs)
            counted == [p EXCEPT !.chunk_count = Some(Len(cs))]
        IN  IF \E k \in 1..Len(md) : IsNone(md[k].token_count) THEN
                [paper |-> counted, chunks |-> cs, chunks_metadata |-> md,
                 outcome |-> "raised", ret |-> None, fault |-> "sum", called |-> TRUE]
            ELSE
                [paper |-> [counted EXCEPT !.total_tokens = Some(SumInts(TokenCounts(md)))],
                 chunks |-> cs, chunks_metadata |-> md,
                 outcome |-> "returned", ret |-> Some(md), fault |-> "none", called |-> TRUE]

\* The whole call: `chunkerRaises` and `splits` are what the external chunker
\* does.  The result carries the paper as the call leaves it, the locals and
\* how the call ended.
preprocess_paper(p, spd, chunkerRaises, splits) ==
    IF Falsy(p.content) THEN
        [paper |-> p, chunks |-> << >>, chunks_metadata |-> << >>,
         outcome |-> "skipped", ret |-> None, fault |-> "none", called |-> FALSE]
    ELSE IF chunkerRaises THEN
        [paper |-> p, chunks |-> << >>, chunks_metadata |-> << >>,
         outcome |-> "raised", ret |-> None, fault |-> "chunker", called |-> TRUE]
    ELSE
        LET cs == Chunker(spd, splits)
            md == build_chunk_metadata(p, cs)
            counted == [p EXCEPT !.chunk_count = Some(Len(cs))]
        IN  IF \E k \in 1..Len(md) : IsNone(md[k].token_count) THEN
                \* sum() raises TypeError after chunk_count was assigned
                [paper |-> counted, chunks |-> cs, chunks_metadata |-> md,
                 outcome |-> "raised", ret |-> None, fault |-> "sum", called |-> TRUE]
            ELSE
                [paper |-> [counted EXCEPT !.total_tokens = Some(SumInts(TokenCounts(md)))],
                 chunks |-> cs, chunks_metadata |-> md,
                 outcome |-> "returned", ret |-> Some(md), fault |-> "none", called |-> TRUE]

-----------------------------------------------------------------------------
(* Inputs of the preprocessing specification *)

ArxivIds == { <<"X", "1">>, <<"7", "#", "2">> }
Titles == { <<"T">> }
Contents == { None, Some(<< >>), Some(<<"a", " ", "b">>) }
Citations == { << >>, << <<"X", "1">> >> }

Papers ==
    { [arxiv_id |-> a, title |-> t, summary |-> t, content |-> c, citations |-> r,
       chunk_count |-> None, total_tokens |-> None] :
        a \in ArxivIds, t \in Titles, c \in Contents, r \in Citations }

SplitKinds ==
    { Split(<< <<"a">> >>, Some(2), Some(1)),
      Split(<< <<"a">>, <<"b">> >>, None, None),
      Split(<< <<"b">> >>, Some(0), None) }

SplitLists ==
    UNION { [1..n -> SplitKinds] : n \in 0..MaxChunks }
    \cup { [k \in 1..n |-> Split(<< <<"a">> >>, Some(k % 3), Some(1))] :
              n \in (MaxChunks + 1)..MaxLongChunks }

\* what the chunker may return for a paper of a page
PbSplitLists ==
    { [k \in 1..n |-> Split(<< <<"a">> >>, Some(2), Some(1))] : n \in 0..MaxPbChunks }
    \cup { << Split(<< <<"b">> >>, None, None) >> }

ChunkInit ==
    /\ speed \in {0, 1}
    /\ paper \in Papers
    /\ chunks = << >>
    /\ chunks_metadata = << >>
    /\ pp_outcome = "idle"
    /\ pp_return = None
    /\ pp_fault = "none"
    /\ chunker_called = FALSE

\* The preprocessor at rest, for the specifications of the other components
ChunkIdle ==
    /\ speed = 0
    /\ paper = [arxiv_id |-> <<"X", "1">>, title |-> <<"T">>, summary |-> <<"T">>,
                content |-> None, citations |-> << >>,
                chunk_count |-> None, total_tokens |-> None]
    /\ chunks = << >>
    /\ chunks_metadata = << >>
    /\ pp_outcome = "idle"
    /\ pp_return = None
    /\ pp_fault = "none"
    /\ chunker_called = FALSE

PreprocessPaper ==
    /\ \E chunkerRaises \in BOOLEAN, splits \in SplitLists :
        LET r == preprocess_paper(paper, speed, chunkerRaises, splits) IN
        /\ paper' = r.paper
        /\ chunks' = r.chunks
        /\ chunks_metadata' = r.chunks_metadata
        /\ pp_outcome' = r.outcome
        /\ pp_return' = r.ret
        /\ pp_fault' = r.fault
        /\ chunker_called' = r.called
        /\ UNCHANGED speed
    /\ UNCHANGED notChunk

-----------------------------------------------------------------------------
(* Vectorizer *)

\* Vectorizer.build_chunk: f"# {title}\n{content}"
build_chunk(title, content) == << "#", " " >> \o title \o << "\n" >> \o content

\* range(start, stop, step) for step >= 1
RECURSIVE Range(_, _, _)
Range(start, stop, step) ==
    IF start >= stop THEN << >>
    ELSE << start >> \o Range(start + step, stop, step)

\* lst[lo:hi] for 0 <= lo <= hi (Python clamps hi to len(lst))
Slice(lst, lo, hi) ==
    [k \in 1..(Min(hi, Len(lst)) - Min(lo, Len(lst))) |-> lst[Min(lo, Len(lst)) + k]]

\* Mutant: the slice runs one item past the batch (lst[i:i + batch_size + 1])
batch_generator_Overlap(lst, bsize) ==
    LET starts == Range(0, Len(lst), bsize) IN
    [j \in 1..Len(starts) |-> Slice(lst, starts[j], starts[j] + bsize + 1)]

\* list(self.batch_generator(metadata_list))
batch_generator(lst, bsize) ==
    LET starts == Range(0, Len(lst), bsize) IN
    [j \in 1..Len(starts) |-> Slice(lst, starts[j], starts[j] + bsize)]

\* the external encoder: one vector per text (a stand-in value per text)
Encode(texts) == [k \in 1..Len(texts) |-> Len(texts[k])]

\* the metadata dict stored with each vector
StoredMetadata(item) ==
    [title        |-> item.title,
     content      |-> item.content,
     prechunk_id  |-> item.prechunk_id,
     postchunk_id |-> item.postchunk_id,
     arxiv_id     |-> item.arxiv_id,
     references   |-> item.references,
     chunk_index  |-> item.chunk_index,
     token_count  |-> item.token_count]

BatchTexts(batch) == [k \in 1..Len(batch) |-> build_chunk(batch[k].title, batch[k].content)]

\* list(zip(ids, embeddings, metadata_batch))
VectorsToUpsert(batch) ==
    LET embeddings == Encode(BatchTexts(batch)) IN
    [k \in 1..Len(batch) |->
        [id |-> batch[k].id, values |-> embeddings[k], metadata |-> StoredMetadata(batch[k])]]

\* self.index.upsert(vectors=...): insert or overwrite by id
Upsert(store, vectors) ==
    LET ids == { vectors[k].id : k \in 1..Len(vectors) }
        last(id) == CHOOSE k \in 1..Len(vectors) :
                        /\ vectors[k].id = id
                        /\ \A m \in (k + 1)..Len(vectors) : vectors[m].id # id
    IN  [id \in (DOMAIN store) \cup ids |->
            IF id \in ids THEN vectors[last(id)].metadata ELSE store[id]]

\* What the collaborators do during one loop iteration
BatchOutcomes == {"ok", "encoder_raises", "upsert_raises"}

\* vectorize_and_store, lines 55-61: counters and the batch list
VsEnter ==
    /\ vs_pc = "start"
    /\ total_chunks' = Len(metadata_list)
    /\ processed_chunks' = 0
    /\ failed_chunks' = 0
    /\ batches' = batch_generator(metadata_list, batch_size)
    /\ vs_pc' = "loop"
    /\ UNCHANGED <<batch_size, metadata_list, batch_no, encoder_calls, upsert_calls,
                   batch_outcomes, index_store, stats>>
    /\ UNCHANGED notVec

\* Mutant: a failing batch counts as one failed chunk
VsBatch_FailedByOne ==
    /\ vs_pc = "loop"
    /\ batch_no < Len(batches)
    /\ \E outcome \in BatchOutcomes :
        LET batch == batches[batch_no + 1]
            vectors == VectorsToUpsert(batch)
        IN
        /\ encoder_calls' = Append(encoder_calls, BatchTexts(batch))
        /\ upsert_calls' = IF outcome = "encoder_raises" THEN upsert_calls
                           ELSE Append(upsert_calls, vectors)
        /\ index_store' = IF outcome = "ok" THEN Upsert(index_store, vectors)
                          ELSE index_store
        /\ processed_chunks' = IF outcome = "ok" THEN processed_chunks + Len(batch)
                               ELSE processed_chunks
        /\ failed_chunks' = IF outcome = "ok" THEN failed_chunks
                            ELSE failed_chunks + 1
        /\ batch_outcomes' = Append(batch_outcomes, outcome)
    /\ batch_no' = batch_no + 1
    /\ UNCHANGED <<batch_size, metadata_list, vs_pc, total_chunks, batches, stats>>
    /\ UNCHANGED notVec

\* Mutant: the try/except encloses the loop, so a failing batch ends it
VsBatch_FailureEndsLoop ==
    /\ vs_pc = "loop"
    /\ batch_no < Len(batches)
    /\ \E outcome \in BatchOutcomes :
        LET batch == batches[batch_no + 1]
            vectors == VectorsToUpsert(batch)
        IN
        /\ encoder_calls' = Append(encoder_calls, BatchTexts(batch))
        /\ upsert_calls' = IF outcome = "encoder_raises" THEN upsert_calls
                           ELSE Append(upsert_calls, vectors)
        /\ index_store' = IF outcome = "ok" THEN Upsert(index_store, vectors)
                          ELSE index_store
        /\ processed_chunks' = IF outcome = "ok" THEN processed_chunks + Len(batch)
                               ELSE processed_chunks
        /\ failed_chunks' = IF outcome = "ok" THEN failed_chunks
                            ELSE failed_chunks + Len(batch)
        /\ batch_outcomes' = Append(batch_outcomes, outcome)
        /\ batch_no' = IF outcome = "ok" THEN batch_no + 1 ELSE Len(batches)
    /\ UNCHANGED <<batch_size, metadata_list, vs_pc, total_chunks, batches, stats>>
    /\ UNCHANGED notVec

\* vectorize_and_store, lines 63-103: one iteration of the batch loop
VsBatch ==
    /\ vs_pc = "loop"
    /\ batch_no < Len(batches)
    /\ \E outcome \in BatchOutcomes :
        LET batch == batches[batch_no + 1]
            vectors == VectorsToUpsert(batch)
        IN
        /\ encoder_calls' = Append(encoder_calls, BatchTexts(batch))
        /\ upsert_calls' = IF outcome = "encoder_raises" THEN upsert_calls
                           ELSE Append(upsert_calls, vectors)
        /\ index_store' = IF outcome = "ok" THEN Upsert(index_store, vectors)
                          ELSE index_store
        /\ processed_chunks' = IF outcome = "ok" THEN processed_chunks + Len(batch)
                               ELSE processed_chunks
        /\ failed_chunks' = IF outcome = "ok" THEN failed_chunks
                            ELSE failed_chunks + Len(batch)
        /\ batch_outcomes' = Append(batch_outcomes, outcome)
    /\ batch_no' = batch_no + 1
    /\ UNCHANGED <<batch_size, metadata_list, vs_pc, total_chunks, batches, stats>>
    /\ UNCHANGED notVec

\* vectorize_and_store, lines 105-124: the statistics are built and returned
VsReturn ==
    /\ vs_pc = "loop"
    /\ batch_no = Len(batches)
    /\ stats' = Some([total_chunks     |-> total_chunks,
                      processed_chunks |-> processed_chunks,
                      failed_chunks    |-> failed_chunks])
    /\ vs_pc' = "done"
    /\ UNCHANGED <<batch_size, metadata_list, total_chunks, batches, batch_no,
                   processed_chunks, failed_chunks, encoder_calls, upsert_calls,
                   batch_outcomes, index_store>>
    /\ UNCHANGED notVec

\* Chunk records as preprocessing produces them, for one or two papers
RecordPaper(aid) ==
    [arxiv_id |-> aid, title |-> <<"T">>, summary |-> <<"T">>,
     content |-> Some(<<"a">>), citations |-> << >>,
     chunk_count |-> None, total_tokens |-> None]

RecordsOf(aid, n) ==
    build_chunk_metadata(RecordPaper(aid),
        [k \in 1..n |-> [text |-> <<"a">>, token_count |-> Some(1), score |-> Some(1)]])

MetadataLists ==
    { RecordsOf(<<"X", "1">>, n) \o RecordsOf(<<"Y">>, m) :
        n \in 0..MaxRecords, m \in 0..1 } 

EmptyStore == [id \in {} |-> 0]

VecInit ==
    /\ batch_size \in 1..MaxBatchSize
    /\ metadata_list \in { l \in MetadataLists : Len(l) <= MaxRecords }
    /\ vs_pc = "start"
    /\ total_chunks = 0
    /\ batches = << >>
    /\ batch_no = 0
    /\ processed_chunks = 0
    /\ failed_chunks = 0
    /\ encoder_calls = << >>
    /\ upsert_calls = << >>
    /\ batch_outcomes = << >>
    /\ index_store = EmptyStore
    /\ stats = None

VecCallIdle ==
    /\ batch_size = 1
    /\ metadata_list = << >>
    /\ vs_pc = "idle"
    /\ total_chunks = 0
    /\ batches = << >>
    /\ batch_no = 0
    /\ processed_chunks = 0
    /\ failed_chunks = 0
    /\ encoder_calls = << >>
    /\ upsert_calls = << >>
    /\ batch_outcomes = << >>
    /\ stats = None

VecIdle == VecCallIdle /\ index_store = EmptyStore

-----------------------------------------------------------------------------
(* Vectorizer.query *)

\* the 400 of content[-400:] and content[:400]
ContextChars == 400

\* s[-n:] for n >= 1
LastChars(s, n) == SubSeq(s, Len(s) - Min(n, Len(s)) + 1, Len(s))

\* s[:n]
FirstChars(s, n) == SubSeq(s, 1, Min(n, Len(s)))

\* self.index.fetch(ids=...)["vectors"]: the ids that are stored, no others
Fetch(store, ids) ==
    [id \in { ids[k] : k \in 1..Len(ids) } \cap DOMAIN store |-> [metadata |-> store[id]]]

\* [id for id in [pre_id, post_id] if id]
NeighborIds(pre_id, post_id) ==
    (IF pre_id # << >> THEN << pre_id >> ELSE << >>)
    \o (IF post_id # << >> THEN << post_id >> ELSE << >>)

\* Mutant: the predecessor excerpt is taken from the front ([:400])
ExpandContent_PrefixOfPredecessor(content, pre_id, post_id, context_chunks) ==
    LET withPre ==
            IF pre_id # << >> /\ pre_id \in DOMAIN context_chunks
            THEN FirstChars(context_chunks[pre_id].metadata.content, ContextChars)
                 \o << " " >> \o content
            ELSE content
    IN  IF post_id # << >> /\ post_id \in DOMAIN context_chunks
        THEN withPre \o << " " >>
             \o FirstChars(context_chunks[post_id].metadata.content, ContextChars)
        ELSE withPre

\* query, lines 174-177: splice the neighbors' excerpts around the content
ExpandContent(content, pre_id, post_id, context_chunks) ==
    LET withPre ==
            IF pre_id # << >> /\ pre_id \in DOMAIN context_chunks
            THEN LastChars(context_chunks[pre_id].metadata.content, ContextChars)
                 \o << " " >> \o content
            ELSE content
    IN  IF post_id # << >> /\ post_id \in DOMAIN context_chunks
        THEN withPre \o << " " >>
             \o FirstChars(context_chunks[post_id].metadata.content, ContextChars)
        ELSE withPre

\* one entry of the returned list
ResultEntry(match, content) ==
    [title    |-> match.metadata.title,
     content  |-> content,
     score    |-> match.score,
     metadata |-> match.metadata]

\* the sequences of at most k members of S that repeat none
DistinctSeqs(S, k) ==
    { f \in UNION { [1..m -> S] : m \in 0..k } :
        \A a, b \in DOMAIN f : a # b => f[a] # f[b] }

\* what self.index.query may return: at most k stored vectors, no id twice,
\* best score first
QueryResults(store, k) ==
    { [j \in 1..Len(ids) |->
          [id |-> ids[j], score |-> 10 - j, metadata |-> store[ids[j]]]] :
        ids \in DistinctSeqs(DOMAIN store, k) }

\* query, lines 149-158: embed the text and ask the index; either call may raise
QEnter ==
    /\ q_pc = "start"
    /\ \/ \E fault \in {"encoder", "query"} :
            /\ q_pc' = "raised"
            /\ q_fault' = fault
            /\ UNCHANGED <<results, matches>>
       \/ \E r \in QueryResults(index_store, top_k) :
            /\ results' = r
            /\ matches' = << >>
            /\ q_pc' = "loop"
            /\ UNCHANGED q_fault
    /\ UNCHANGED <<include_context, top_k, match_no, fetch_calls, q_return>>
    /\ UNCHANGED notQuery

\* Mutant: the fetched neighbors are indexed without the membership test, so
\* an absent neighbor is a KeyError that the outer handler re-raises
QMatch_NoMembershipTest ==
    /\ q_pc = "loop"
    /\ match_no < Len(results)
    /\ LET match   == results[match_no + 1]
           content == match.metadata.content
           pre_id  == match.metadata.prechunk_id
           post_id == match.metadata.postchunk_id
           ids     == NeighborIds(pre_id, post_id)
       IN  IF include_context /\ (pre_id # << >> \/ post_id # << >>)
           THEN /\ fetch_calls' = Append(fetch_calls, ids)
                /\ \E fetchRaises \in BOOLEAN :
                    IF fetchRaises
                    THEN /\ q_pc' = "raised"
                         /\ q_fault' = "fetch"
                         /\ UNCHANGED <<matches, match_no>>
                    ELSE LET context_chunks == Fetch(index_store, ids) IN
                         IF \E k \in 1..Len(ids) : ids[k] \notin DOMAIN context_chunks
                         THEN /\ q_pc' = "raised"
                              /\ q_fault' = "none"
                              /\ UNCHANGED <<matches, match_no>>
                         ELSE /\ matches' = Append(matches, ResultEntry(match,
                                     ExpandContent(content, pre_id, post_id, context_chunks)))
                              /\ match_no' = match_no + 1
                              /\ UNCHANGED <<q_pc, q_fault>>
           ELSE /\ matches' = Append(matches, ResultEntry(match, content))
                /\ match_no' = match_no + 1
                /\ UNCHANGED <<q_pc, q_fault, fetch_calls>>
    /\ UNCHANGED <<include_context, top_k, results, q_return>>
    /\ UNCHANGED notQuery

\* query, lines 159-184: one iteration of the loop over the matches
QMatch ==
    /\ q_pc = "loop"
    /\ match_no < Len(results)
    /\ LET match   == results[match_no + 1]
           content == match.metadata.content
           pre_id  == match.metadata.prechunk_id
           post_id == match.metadata.postchunk_id
           ids     == NeighborIds(pre_id, post_id)
       IN  IF include_context /\ (pre_id # << >> \/ post_id # << >>)
           THEN /\ fetch_calls' = Append(fetch_calls, ids)
                /\ \E fetchRaises \in BOOLEAN :
                    IF fetchRaises
                    THEN /\ q_pc' = "raised"
                         /\ q_fault' = "fetch"
                         /\ UNCHANGED <<matches, match_no>>
                    ELSE LET context_chunks == Fetch(index_store, ids) IN
                         /\ matches' = Append(matches, ResultEntry(match,
                                ExpandContent(content, pre_id, post_id, context_chunks)))
                         /\ match_no' = match_no + 1
                         /\ UNCHANGED <<q_pc, q_fault>>
           ELSE /\ matches' = Append(matches, ResultEntry(match, content))
                /\ match_no' = match_no + 1
                /\ UNCHANGED <<q_pc, q_fault, fetch_calls>>
    /\ UNCHANGED <<include_context, top_k, results, q_return>>
    /\ UNCHANGED notQuery

Reverse(seq) == [k \in 1..Len(seq) |-> seq[Len(seq) + 1 - k]]

\* Mutant: the list is re-ranked (ascending by score) before it is returned
QReturn_Reranked ==
    /\ q_pc = "loop"
    /\ match_no = Len(results)
    /\ q_return' = Some(Reverse(matches))
    /\ q_pc' = "done"
    /\ UNCHANGED <<include_context, top_k, q_fault, results, match_no,
                   fetch_calls, matches>>
    /\ UNCHANGED notQuery

\* query, line 186: return matches
QReturn ==
    /\ q_pc = "loop"
    /\ match_no = Len(results)
    /\ q_return' = Some(matches)
    /\ q_pc' = "done"
    /\ UNCHANGED <<include_context, top_k, q_fault, results, match_no,
                   fetch_calls, matches>>
    /\ UNCHANGED notQuery

\* Contents of the queried paper's chunks: lengths around the 400-character
\* excerpt, characters that differ along the text and between chunks
Letters == <<"a", "b", "c", "d", "e", "f", "g">>

LongText(len, c) == [k \in 1..len |-> Letters[((k + c) % 7) + 1]]

LenTable == << <<1000, 3, 1000>>, <<400, 401, 399>>, <<0, 2, 401>> >>

QueryRecords(profile) ==
    build_chunk_metadata(RecordPaper(<<"X", "1">>),
        [k \in 1..MaxQueryChunks |->
            [text        |-> LongText(LenTable[profile][((k - 1) % 3) + 1], k),
             token_count |-> Some(1),
             score       |-> Some(1)]])

\* the index holding the records at the positions in `present`
StoreOf(records, present) ==
    [id \in { records[k].id : k \in present } |->
        StoredMetadata(records[CHOOSE k \in present : records[k].id = id])]

QueryStores ==
    { StoreOf(QueryRecords(profile), present) :
        profile \in 1..Len(LenTable), present \in SUBSET (1..MaxQueryChunks) }

QueryInit ==
    /\ include_context \in BOOLEAN
    /\ top_k \in 1..MaxTopK
    /\ q_pc = "start"
    /\ q_fault = "none"
    /\ results = << >>
    /\ match_no = 0
    /\ fetch_calls = << >>
    /\ matches = << >>
    /\ q_return = None

QueryIdle ==
    /\ include_context = FALSE
    /\ top_k = 1
    /\ q_pc = "idle"
    /\ q_fault = "none"
    /\ results = << >>
    /\ match_no = 0
    /\ fetch_calls = << >>
    /\ matches = << >>
    /\ q_return = None

-----------------------------------------------------------------------------
(* ArXivPreprocessor.clean_text *)

\* The characters of the texts: "x" "e" "2" "-" "@" " " are themselves, and
\*   "TAB" U+0009, "NBSP" U+00A0 no-break space, "SUP2" U+00B2 superscript two,
\*   "ACUTE" U+0301 combining acute accent, "E_ACUTE" U+00E9,
\*   "G" U+1100 and "A" U+1161 (Hangul jamo), "GA" U+AC00 (Hangul syllable).

\* full compatibility decomposition of one character
Decomposition(c) ==
    CASE c = "NBSP"    -> << " " >>
      [] c = "SUP2"    -> << "2" >>
      [] c = "E_ACUTE" -> << "e", "ACUTE" >>
      [] c = "GA"      -> << "G", "A" >>
      [] OTHER         -> << c >>

RECURSIVE Decompose(_)
Decompose(s) ==
    IF Len(s) = 0 THEN << >> ELSE Decomposition(s[1]) \o Decompose(Tail(s))

\* the primary composite of a pair, None if the pair has none
Composite(a, b) ==
    CASE a = "e" /\ b = "ACUTE" -> Some("E_ACUTE")
      [] a = "G" /\ b = "A"     -> Some("GA")
      [] OTHER                  -> None

\* canonical composition; on these characters a character composes only with
\* the one right before it (a single combining class, no blocked sequences)
RECURSIVE ComposeInto(_, _)
ComposeInto(done, rest) ==
    IF Len(rest) = 0 THEN done
    ELSE IF Len(done) > 0 /\ ~IsNone(Composite(done[Len(done)], rest[1]))
    THEN ComposeInto(SubSeq(done, 1, Len(done) - 1)
                        \o << Get(Composite(done[Len(done)], rest[1])) >>,
                     Tail(rest))
    ELSE ComposeInto(Append(done, rest[1]), Tail(rest))

\* unicodedata.normalize('NFKC', text)
NFKC(s) == ComposeInto(<< >>, Decompose(s))

\* \w of the regular expression (str.isalnum() or "_")
IsWordChar(c) == c \in {"x", "e", "2", "SUP2", "E_ACUTE", "G", "A", "GA"}

\* \s of the regular expression, and the separators of str.split()
IsSpaceChar(c) == c \in {" ", "TAB", "NBSP"}

\* the punctuation the character class lists
IsListedPunct(c) == c \in {"-"}

\* Mutant: disallowed characters are deleted instead of replaced by a space
RECURSIVE RegexSub_Delete(_)
RegexSub_Delete(s) ==
    IF Len(s) = 0 THEN << >>
    ELSE (IF IsWordChar(s[1]) \/ IsSpaceChar(s[1]) \/ IsListedPunct(s[1])
          THEN << s[1] >> ELSE << >>) \o RegexSub_Delete(Tail(s))

\* re.sub(r'[^\w\s.,!?;:()\[\]{}"\'`-]', ' ', text)
RegexSub(s) ==
    [k \in 1..Len(s) |->
        IF IsWordChar(s[k]) \/ IsSpaceChar(s[k]) \/ IsListedPunct(s[k])
        THEN s[k] ELSE " "]

\* text.split(): the maximal runs of non-whitespace characters
RECURSIVE SplitAcc(_, _, _, _)
SplitAcc(s, i, cur, acc) ==
    IF i > Len(s) THEN (IF cur = << >> THEN acc ELSE Append(acc, cur))
    ELSE IF IsSpaceChar(s[i])
    THEN SplitAcc(s, i + 1, << >>, IF cur = << >> THEN acc ELSE Append(acc, cur))
    ELSE SplitAcc(s, i + 1, Append(cur, s[i]), acc)

SplitWhitespace(s) == SplitAcc(s, 1, << >>, << >>)

\* s.strip()
RECURSIVE Strip(_)
Strip(s) ==
    IF Len(s) = 0 THEN s
    ELSE IF IsSpaceChar(s[1]) THEN Strip(Tail(s))
    ELSE IF IsSpaceChar(s[Len(s)]) THEN Strip(SubSeq(s, 1, Len(s) - 1))
    ELSE s

\* clean_text(text), text a string or None
clean_text(text) ==
    IF Falsy(text) THEN << >>
    ELSE Strip(JoinSpace(SplitWhitespace(RegexSub(NFKC(Get(text))))))

CleanChars == {"x", "e", " ", "TAB", "NBSP", "@", "-", "SUP2", "ACUTE", "G", "A"}

CleanInputs ==
    {None} \cup { Some(t) : t \in UNION { [1..n -> CleanChars] : n \in 0..MaxTextLen } }

CleanInit ==
    /\ ct_input \in CleanInputs
    /\ ct_once = None
    /\ ct_twice = None

\* the first call, clean_text(x)
CleanOnce ==
    /\ IsNone(ct_once)
    /\ ct_once' = Some(clean_text(ct_input))
    /\ UNCHANGED <<ct_input, ct_twice>>
    /\ UNCHANGED notClean

\* the second call, on the result of the first
CleanTwice ==
    /\ ~IsNone(ct_once)
    /\ IsNone(ct_twice)
    /\ ct_twice' = Some(clean_text(ct_once))
    /\ UNCHANGED <<ct_input, ct_once>>
    /\ UNCHANGED notClean

CleanIdle ==
    /\ ct_input = None
    /\ ct_once = None
    /\ ct_twice = None

-----------------------------------------------------------------------------
(* Vectorizer.vectorize_and_store as one call *)

\* lines 64-103: one loop iteration applied to the index, the log of upsert
\* calls and the two counters
VsStep(acc, batch, outcome) ==
    LET vectors == VectorsToUpsert(batch) IN
    [store     |-> IF outcome = "ok" THEN Upsert(acc.store, vectors) ELSE acc.store,
     upserts   |-> IF outcome = "encoder_raises" THEN acc.upserts
                   ELSE Append(acc.upserts, vectors),
     processed |-> IF outcome = "ok" THEN acc.processed + Len(batch) ELSE acc.processed,
     failed    |-> IF outcome = "ok" THEN acc.failed ELSE acc.failed + Len(batch)]

\* the iterations for batches bs[k..], outs[k] being what the collaborators do
\* in iteration k
RECURSIVE VsLoop(_, _, _, _)
VsLoop(acc, bs, outs, k) ==
    IF k > Len(bs) THEN acc
    ELSE VsLoop(VsStep(acc, bs[k], outs[k]), bs, outs, k + 1)

\* Mutant: the batches are taken from the end of the list first
vectorize_and_store_LastBatchFirst(store, upserts, lst, bsize, outs) ==
    LET bs  == Reverse(batch_generator(lst, bsize))
        end == VsLoop([store |-> store, upserts |-> upserts, processed |-> 0,
                       failed |-> 0], bs, outs, 1)
    IN  [store   |-> end.store,
         upserts |-> end.upserts,
         stats   |-> [total_chunks     |-> Len(lst),
                      processed_chunks |-> end.processed,
                      failed_chunks    |-> end.failed]]

\* the whole call on the index `store`, appending to the upsert log
vectorize_and_store(store, upserts, lst, bsize, outs) ==
    LET bs  == batch_generator(lst, bsize)
        end == VsLoop([store |-> store, upserts |-> upserts, processed |-> 0,
                       failed |-> 0], bs, outs, 1)
    IN  [store   |-> end.store,
         upserts |-> end.upserts,
         stats   |-> [total_chunks     |-> Len(lst),
                      processed_chunks |-> end.processed,
                      failed_chunks    |-> end.failed]]

\* what the collaborators may do over the batches of one call: every batch
\* goes through, or one of them fails in the encoder or in the upsert
BatchOutcomeSeqs(lst, bsize) ==
    LET n == Len(batch_generator(lst, bsize)) IN
    { [k \in 1..n |-> IF k = j THEN o ELSE "ok"] : j \in 1..n, o \in BatchOutcomes }

-----------------------------------------------------------------------------
(* process_papers_batch *)

\* the two columns preprocessing writes
Counters(p) == << p.chunk_count, p.total_tokens >>

\* session.commit(): the database takes the rows' values
Committed(papers) == [k \in 1..Len(papers) |-> Counters(papers[k])]

\* Mutant: a failed commit leaves the rows as preprocessing wrote them
RolledBack_NoRollback(papers, db) == papers

\* session.rollback(): the rows go back to what the database holds
RolledBack(papers, db) ==
    [k \in 1..Len(papers) |->
        [papers[k] EXCEPT !.chunk_count = db[k][1], !.total_tokens = db[k][2]]]

\* where the loop goes after the iteration of paper i
AfterIteration(i) == IF i = Len(pb_papers) THEN "final_flush" ELSE "pre"

\* Mutant: a paper whose preprocessing returned no list counts as failed
CountsAsFailed_NoList(r) == r.outcome # "returned"

\* lines 241-243: the paper is counted as failed when preprocess_paper raised
CountsAsFailed(r) == r.outcome = "raised"

\* Mutant: the exception of a paper leaves the function
AfterRaise_Escapes(i) == "raised"

\* line 244: `continue` goes to the next paper, or out of the loop after the last
AfterRaise(i) == AfterIteration(i)

\* lines 213-221 and 241-244: preprocess paper i, count it, buffer its chunks
PbPreprocess ==
    /\ pb_pc = "pre"
    /\ pb_i < Len(pb_papers)
    /\ \E chunkerRaises \in BOOLEAN, splits \in PbSplitLists :
        LET i == pb_i + 1
            r == preprocess_paper(pb_papers[i], speed, chunkerRaises, splits)
            truthy == r.outcome = "returned" /\ Len(Get(r.ret)) > 0
        IN
        /\ paper' = r.paper
        /\ chunks' = r.chunks
        /\ chunks_metadata' = r.chunks_metadata
        /\ pp_outcome' = r.outcome
        /\ pp_return' = r.ret
        /\ pp_fault' = r.fault
        /\ chunker_called' = r.called
        /\ pb_papers' = [pb_papers EXCEPT ![i] = r.paper]
        /\ pb_i' = i
        /\ pb_outcomes' = Append(pb_outcomes, [outcome |-> r.outcome, ret |-> r.ret])
        /\ failed' = IF CountsAsFailed(r) THEN failed + 1 ELSE failed
        /\ IF r.outcome = "raised"
           THEN /\ pb_pc' = AfterRaise(i)
                /\ UNCHANGED <<successful, current_batch_chunks>>
           ELSE /\ successful' = IF truthy THEN successful + 1 ELSE successful
                /\ current_batch_chunks' =
                       IF truthy /\ has_vectorizer
                       THEN current_batch_chunks \o Get(r.ret)
                       ELSE current_batch_chunks
                /\ pb_pc' = "flush"
    /\ UNCHANGED <<speed, vecVars, pb_batch_size, has_vectorizer, pb_flushed, vs_calls,
                   db_committed, commit_log, summary>>
    /\ UNCHANGED notBatch

\* Mutant: the buffer keeps its records after the flush in the loop
BufferAfterFlush_Kept(buffer) == buffer

\* line 229: current_batch_chunks = []
BufferAfterFlush(buffer) == << >>

\* lines 224-229: vectorize the buffer once it holds batch_size records
PbFlush ==
    /\ pb_pc = "flush"
    /\ IF has_vectorizer /\ Len(current_batch_chunks) >= pb_batch_size
       THEN \E outs \in BatchOutcomeSeqs(current_batch_chunks, batch_size) :
               LET r == vectorize_and_store(index_store, upsert_calls,
                                            current_batch_chunks, batch_size, outs)
               IN  /\ index_store' = r.store
                   /\ upsert_calls' = r.upserts
                   /\ vs_calls' = Append(vs_calls, current_batch_chunks)
                   /\ current_batch_chunks' = BufferAfterFlush(current_batch_chunks)
                   /\ pb_flushed' = TRUE
       ELSE /\ pb_flushed' = FALSE
            /\ UNCHANGED <<index_store, upsert_calls, vs_calls, current_batch_chunks>>
    /\ pb_pc' = "commit"
    /\ UNCHANGED <<chunkVars, batch_size, metadata_list, vs_pc, total_chunks, batches,
                   batch_no, processed_chunks, failed_chunks, encoder_calls,
                   batch_outcomes, stats>>
    /\ UNCHANGED <<pb_papers, pb_batch_size, has_vectorizer, pb_i, successful, failed,
                   pb_outcomes, db_committed, commit_log, summary>>
    /\ UNCHANGED notBatch

\* lines 232-239: commit every batch_size papers; a failed commit is rolled back
PbCommit ==
    /\ pb_pc = "commit"
    /\ IF pb_i % pb_batch_size = 0
       THEN \E commitRaises \in BOOLEAN :
               IF commitRaises
               THEN /\ pb_papers' = RolledBack(pb_papers, db_committed)
                    /\ commit_log' = Append(commit_log, "failed")
                    /\ failed' = failed + 1
                    /\ UNCHANGED db_committed
               ELSE /\ db_committed' = Committed(pb_papers)
                    /\ commit_log' = Append(commit_log, "ok")
                    /\ UNCHANGED <<pb_papers, failed>>
       ELSE UNCHANGED <<pb_papers, db_committed, commit_log, failed>>
    /\ pb_pc' = AfterIteration(pb_i)
    /\ UNCHANGED <<chunkVars, vecVars>>
    /\ UNCHANGED <<pb_batch_size, has_vectorizer, pb_i, successful, current_batch_chunks,
                   pb_flushed, pb_outcomes, vs_calls, summary>>
    /\ UNCHANGED notBatch

\* lines 247-251: vectorize what is left in the buffer (the buffer is kept)
PbFinalFlush ==
    /\ pb_pc = "final_flush"
    /\ IF has_vectorizer /\ current_batch_chunks # << >>
       THEN \E outs \in BatchOutcomeSeqs(current_batch_chunks, batch_size) :
               LET r == vectorize_and_store(index_store, upsert_calls,
                                            current_batch_chunks, batch_size, outs)
               IN  /\ index_store' = r.store
                   /\ upsert_calls' = r.upserts
                   /\ vs_calls' = Append(vs_calls, current_batch_chunks)
                   /\ pb_flushed' = TRUE
       ELSE /\ pb_flushed' = FALSE
            /\ UNCHANGED <<index_store, upsert_calls, vs_calls>>
    /\ pb_pc' = "final_commit"
    /\ UNCHANGED <<chunkVars, batch_size, metadata_list, vs_pc, total_chunks, batches,
                   batch_no, processed_chunks, failed_chunks, encoder_calls,
                   batch_outcomes, stats>>
    /\ UNCHANGED <<pb_papers, pb_batch_size, has_vectorizer, pb_i, successful, failed,
                   current_batch_chunks, pb_outcomes, db_committed, commit_log, summary>>
    /\ UNCHANGED notBatch

\* lines 254-258: the final commit; a failure is rolled back and logged
PbFinalCommit ==
    /\ pb_pc = "final_commit"
    /\ \E commitRaises \in BOOLEAN :
        IF commitRaises
        THEN /\ pb_papers' = RolledBack(pb_papers, db_committed)
             /\ commit_log' = Append(commit_log, "failed")
             /\ UNCHANGED db_committed
        ELSE /\ db_committed' = Committed(pb_papers)
             /\ commit_log' = Append(commit_log, "ok")
             /\ UNCHANGED pb_papers
    /\ pb_pc' = "summary"
    /\ UNCHANGED <<chunkVars, vecVars>>
    /\ UNCHANGED <<pb_batch_size, has_vectorizer, pb_i, successful, failed,
                   current_batch_chunks, pb_flushed, pb_outcomes, vs_calls, summary>>
    /\ UNCHANGED notBatch

\* lines 260-268: the summary is logged and the function returns
PbSummary ==
    /\ pb_pc = "summary"
    /\ summary' = Some([total_papers |-> Len(pb_papers),
                        successful   |-> successful,
                        failed       |-> failed])
    /\ pb_pc' = "done"
    /\ UNCHANGED <<chunkVars, vecVars>>
    /\ UNCHANGED <<pb_papers, pb_batch_size, has_vectorizer, pb_i, successful, failed,
                   current_batch_chunks, pb_flushed, pb_outcomes, vs_calls,
                   db_committed, commit_log>>
    /\ UNCHANGED notBatch

\* the rows of one page: distinct arxiv ids, with or without content
PbPaper(k, hasContent) ==
    [arxiv_id |-> << "P", DigitChars[k + 1] >>, title |-> <<"T">>, summary |-> <<"T">>,
     content |-> IF hasContent THEN Some(<<"a">>)
                 ELSE IF k % 2 = 1 THEN None ELSE Some(<< >>),
     citations |-> << >>, chunk_count |-> None, total_tokens |-> None]

PbPaperLists ==
    { [k \in 1..n |-> PbPaper(k, k \in withContent)] :
        n \in 0..MaxPapers, withContent \in SUBSET (1..MaxPapers) }

BatchInit ==
    /\ pb_papers \in PbPaperLists
    /\ pb_batch_size \in 1..MaxPbBatchSize
    /\ has_vectorizer \in BOOLEAN
    /\ pb_pc = IF Len(pb_papers) = 0 THEN "final_flush" ELSE "pre"
    /\ pb_i = 0
    /\ successful = 0
    /\ failed = 0
    /\ current_batch_chunks = << >>
    /\ pb_flushed = FALSE
    /\ pb_outcomes = << >>
    /\ vs_calls = << >>
    /\ db_committed = Committed(pb_papers)
    /\ commit_log = << >>
    /\ summary = None

BatchIdle ==
    /\ pb_papers = << >>
    /\ pb_batch_size = 1
    /\ has_vectorizer = FALSE
    /\ pb_pc = "idle"
    /\ pb_i = 0
    /\ successful = 0
    /\ failed = 0
    /\ current_batch_chunks = << >>
    /\ pb_flushed = FALSE
    /\ pb_outcomes = << >>
    /\ vs_calls = << >>
    /\ db_committed = << >>
    /\ commit_log = << >>
    /\ summary = None

-----------------------------------------------------------------------------
(* load_dataset_todb *)

\* session.rollback(): nothing added since the last commit stays in the session
PendingAfterRollback(pending) == { }

\* lines 252-257: load_paper_data adds the paper to the session, or rolls the
\* session back and returns None when building the row raises
LdLoad ==
    /\ ld_pc = "load"
    /\ ld_i < Len(ld_dataset)
    /\ \E loadRaises \in BOOLEAN :
        IF loadRaises
        THEN /\ ld_pending' = PendingAfterRollback(ld_pending)
             /\ failed_loads' = failed_loads + 1
             /\ UNCHANGED successful_loads
        ELSE /\ ld_pending' = ld_pending \cup { ld_dataset[ld_i + 1] }
             /\ successful_loads' = successful_loads + 1
             /\ UNCHANGED failed_loads
    /\ ld_i' = ld_i + 1
    /\ ld_pc' = "commit"
    /\ UNCHANGED <<ld_dataset, ld_batch_size, ld_db, ld_commit_log, ld_summary>>
    /\ UNCHANGED notLoad

\* lines 260-266: commit every batch_size papers; a failed commit is rolled back
LdCommit ==
    /\ ld_pc = "commit"
    /\ IF ld_i % ld_batch_size = 0
       THEN \E commitRaises \in BOOLEAN :
               IF commitRaises
               THEN /\ ld_pending' = PendingAfterRollback(ld_pending)
                    /\ ld_commit_log' = Append(ld_commit_log, "failed")
                    /\ UNCHANGED ld_db
               ELSE /\ ld_db' = ld_db \cup ld_pending
                    /\ ld_pending' = { }
                    /\ ld_commit_log' = Append(ld_commit_log, "ok")
       ELSE UNCHANGED <<ld_pending, ld_db, ld_commit_log>>
    /\ ld_pc' = IF ld_i = Len(ld_dataset) THEN "final_commit" ELSE "load"
    /\ UNCHANGED <<ld_dataset, ld_batch_size, ld_i, successful_loads, failed_loads,
                   ld_summary>>
    /\ UNCHANGED notLoad

\* lines 269-273: the final commit; a failure is rolled back and logged
LdFinalCommit ==
    /\ ld_pc = "final_commit"
    /\ \E commitRaises \in BOOLEAN :
        IF commitRaises
        THEN /\ ld_pending' = PendingAfterRollback(ld_pending)
             /\ ld_commit_log' = Append(ld_commit_log, "failed")
             /\ UNCHANGED ld_db
        ELSE /\ ld_db' = ld_db \cup ld_pending
             /\ ld_pending' = { }
             /\ ld_commit_log' = Append(ld_commit_log, "ok")
    /\ ld_pc' = "summary"
    /\ UNCHANGED <<ld_dataset, ld_batch_size, ld_i, successful_loads, failed_loads,
                   ld_summary>>
    /\ UNCHANGED notLoad

\* lines 275-285: the summary is logged and the function returns
LdSummary ==
    /\ ld_pc = "summary"
    /\ ld_summary' = Some([total_papers     |-> Len(ld_dataset),
                           successful_loads |-> successful_loads,
                           failed_loads     |-> failed_loads])
    /\ ld_pc' = "done"
    /\ UNCHANGED <<ld_dataset, ld_batch_size, ld_i, successful_loads, failed_loads,
                   ld_pending, ld_db, ld_commit_log>>
    /\ UNCHANGED notLoad

LoadInit ==
    /\ ld_dataset \in { [k \in 1..n |-> k] : n \in 0..MaxDataset }
    /\ ld_batch_size \in 1..MaxPbBatchSize
    /\ ld_pc = IF Len(ld_dataset) = 0 THEN "final_commit" ELSE "load"
    /\ ld_i = 0
    /\ successful_loads = 0
    /\ failed_loads = 0
    /\ ld_pending = { }
    /\ ld_db = { }
    /\ ld_commit_log = << >>
    /\ ld_summary = None

LoadIdle ==
    /\ ld_dataset = << >>
    /\ ld_batch_size = 1
    /\ ld_pc = "idle"
    /\ ld_i = 0
    /\ successful_loads = 0
    /\ failed_loads = 0
    /\ ld_pending = { }
    /\ ld_db = { }
    /\ ld_commit_log = << >>
    /\ ld_summary = None

-----------------------------------------------------------------------------
(* RAGAgent *)

Agents == {1, 2}
UserInputs == {"q1", "q2"}

HumanMessage(content) == [type |-> "human", content |-> content]
AIMessage(content) == [type |-> "ai", content |-> content]

\* result["output"] of the executor for an input
Output(user_input) == IF user_input = "q1" THEN "a1" ELSE "a2"

\* self.chat_history of a constructed agent
History(a) == heap[ag_list[a]]

\* lines 12-28: RAGAgent(...) without chat_history binds the default
\* argument's list, RAGAgent(..., chat_history=[]) binds the new list
AgConstruct(a) ==
    /\ ag_list[a] = 0
    /\ \E explicit \in BOOLEAN :
        IF explicit
        THEN /\ Len(heap) < MaxLists
             /\ heap' = Append(heap, << >>)
             /\ ag_list' = [ag_list EXCEPT ![a] = Len(heap) + 1]
             /\ ag_last' = [op |-> "init", agent |-> a, input |-> "explicit", ok |-> TRUE]
        ELSE /\ ag_list' = [ag_list EXCEPT ![a] = 1]
             /\ ag_last' = [op |-> "init", agent |-> a, input |-> "default", ok |-> TRUE]
             /\ UNCHANGED heap
    /\ UNCHANGED ag_returned
    /\ UNCHANGED notAgent

\* lines 67-84: the executor answers and the two messages are appended to the
\* list self.chat_history refers to, or it raises and the fixed text is returned
AgQuery(a) ==
    /\ ag_list[a] # 0
    /\ Len(History(a)) < MaxHistory
    /\ \E user_input \in UserInputs, invokeRaises \in BOOLEAN :
        IF invokeRaises
        THEN /\ ag_returned' = Some("Something went wrong!")
             /\ ag_last' = [op |-> "query", agent |-> a, input |-> user_input, ok |-> FALSE]
             /\ UNCHANGED heap
        ELSE /\ heap' = [heap EXCEPT ![ag_list[a]] =
                            @ \o << HumanMessage(user_input),
                                    AIMessage(Output(user_input)) >>]
             /\ ag_returned' = Some(Output(user_input))
             /\ ag_last' = [op |-> "query", agent |-> a, input |-> user_input, ok |-> TRUE]
    /\ UNCHANGED ag_list
    /\ UNCHANGED notAgent

\* line 93: return self.chat_history
AgGetChatHistory(a) ==
    /\ ag_list[a] # 0
    /\ ag_returned' = Some(History(a))
    /\ ag_last' = [op |-> "get_chat_history", agent |-> a, input |-> "", ok |-> TRUE]
    /\ UNCHANGED <<heap, ag_list>>
    /\ UNCHANGED notAgent

\* line 97: self.chat_history = [] binds a new list; the old list is left as it is
AgClearChatHistory(a) ==
    /\ ag_list[a] # 0
    /\ Len(heap) < MaxLists
    /\ heap' = Append(heap, << >>)
    /\ ag_list' = [ag_list EXCEPT ![a] = Len(heap) + 1]
    /\ ag_last' = [op |-> "clear_chat_history", agent |-> a, input |-> "", ok |-> TRUE]
    /\ UNCHANGED ag_returned
    /\ UNCHANGED notAgent

\* the class is defined (the default list exists) and no agent is constructed
AgentIdle ==
    /\ heap = << << >> >>
    /\ ag_list = [a \in Agents |-> 0]
    /\ ag_last = [op |-> "none", agent |-> 0, input |-> "", ok |-> TRUE]
    /\ ag_returned = None

-----------------------------------------------------------------------------
(* process_existing_papers *)

\* len(query.order_by(Paper.id).offset(off).limit(lim).all()) on a table of
\* `count` rows
PageSize(count, off, lim) ==
    IF off >= count THEN 0 ELSE Min(lim, count - off)

\* the papers handed to process_papers_batch in the first k iterations
RECURSIVE HandedUpTo(_)
HandedUpTo(k) ==
    IF k = 0 THEN 0
    ELSE HandedUpTo(k - 1)
         + (IF ex_pages[k].outcome \in {"processed", "batch_error"}
            THEN ex_pages[k].size ELSE 0)

\* the papers handed to process_papers_batch so far
Handed == HandedUpTo(Len(ex_pages))

\* lines 303-320: count the papers; return the initial stats when there are none
ExEnter ==
    /\ ex_pc = "start"
    /\ LET total == Min(ex_paper_count, stop_at) IN
        IF total = 0
        THEN /\ ex_stats' = Some([total_papers |-> 0, processed_papers |-> 0,
                                  failed_papers |-> 0])
             /\ ex_pc' = "done"
             /\ UNCHANGED <<ex_total_papers, ex_offset>>
        ELSE /\ ex_total_papers' = total
             /\ ex_offset' = start_offset
             /\ ex_pc' = "loop"
             /\ UNCHANGED ex_stats
    /\ UNCHANGED <<ex_paper_count, stop_at, start_offset, ex_batch_size, ex_processed,
                   ex_failed, ex_pages>>
    /\ UNCHANGED notExist

\* Mutant: the offset is left where it was
OffsetAfterIteration_Stuck(off, bsize) == off

\* lines 365-367: `finally: offset += batch_size`
OffsetAfterIteration(off, bsize) == off + bsize

\* lines 324-367: one iteration of the paging loop, `finally` included
ExIteration ==
    /\ ex_pc = "loop"
    /\ ex_offset < ex_total_papers
    /\ \E queryRaises \in BOOLEAN, batchRaises \in BOOLEAN :
        LET n == PageSize(ex_paper_count, ex_offset, ex_batch_size) IN
        IF queryRaises
        THEN /\ ex_failed' = ex_failed + ex_batch_size
             /\ ex_pages' = Append(ex_pages, [offset |-> ex_offset, size |-> 0,
                                              outcome |-> "query_error"])
             /\ ex_pc' = "loop"
             /\ UNCHANGED ex_processed
        ELSE IF n = 0
        THEN /\ ex_pages' = Append(ex_pages, [offset |-> ex_offset, size |-> 0,
                                              outcome |-> "break"])
             /\ ex_pc' = "stats"
             /\ UNCHANGED <<ex_processed, ex_failed>>
        ELSE IF batchRaises
        THEN /\ ex_failed' = ex_failed + n
             /\ ex_pages' = Append(ex_pages, [offset |-> ex_offset, size |-> n,
                                              outcome |-> "batch_error"])
             /\ ex_pc' = "loop"
             /\ UNCHANGED ex_processed
        ELSE /\ ex_processed' = ex_processed + n
             /\ ex_pages' = Append(ex_pages, [offset |-> ex_offset, size |-> n,
                                              outcome |-> "processed"])
             /\ ex_pc' = "loop"
             /\ UNCHANGED ex_failed
    /\ ex_offset' = OffsetAfterIteration(ex_offset, ex_batch_size)
    /\ UNCHANGED <<ex_paper_count, stop_at, start_offset, ex_batch_size, ex_total_papers,
                   ex_stats>>
    /\ UNCHANGED notExist

\* lines 369-390: the loop is over; the stats are filled in and returned
ExReturn ==
    /\ \/ ex_pc = "loop" /\ ex_offset >= ex_total_papers
       \/ ex_pc = "stats"
    /\ ex_stats' = Some([total_papers     |-> ex_total_papers,
                         processed_papers |-> ex_processed,
                         failed_papers    |-> ex_failed])
    /\ ex_pc' = "done"
    /\ UNCHANGED <<ex_paper_count, stop_at, start_offset, ex_batch_size, ex_total_papers,
                   ex_offset, ex_processed, ex_failed, ex_pages>>
    /\ UNCHANGED notExist

ExistInit ==
    /\ ex_paper_count \in 0..MaxPaperCount
    /\ stop_at \in 0..(MaxPaperCount + 1)
    /\ start_offset \in 0..MaxPaperCount
    /\ ex_batch_size \in 1..MaxExBatchSize
    /\ ex_pc = "start"
    /\ ex_total_papers = 0
    /\ ex_offset = 0
    /\ ex_processed = 0
    /\ ex_failed = 0
    /\ ex_pages = << >>
    /\ ex_stats = None

ExistIdle ==
    /\ ex_paper_count = 0
    /\ stop_at = 0
    /\ start_offset = 0
    /\ ex_batch_size = 1
    /\ ex_pc = "idle"
    /\ ex_total_papers = 0
    /\ ex_offset = 0
    /\ ex_processed = 0
    /\ ex_failed = 0
    /\ ex_pages = << >>
    /\ ex_stats = None

-----------------------------------------------------------------------------
(* Specifications *)

\* the later components at rest
RestIdle == LoadIdle /\ AgentIdle /\ ExistIdle

\* preprocess_paper called on a paper, any number of times
Init == ChunkInit /\ VecIdle /\ QueryIdle /\ CleanIdle /\ BatchIdle /\ RestIdle
Next == PreprocessPaper
Spec == Init /\ [][Next]_vars

\* one call of vectorize_and_store
InitVec == ChunkIdle /\ VecInit /\ QueryIdle /\ CleanIdle /\ BatchIdle /\ RestIdle
NextVec == VsEnter \/ VsBatch \/ VsReturn
SpecVec == InitVec /\ [][NextVec]_vars

\* one call of query against an index that holds some of a paper's chunks
InitQuery ==
    /\ ChunkIdle /\ VecCallIdle /\ index_store \in QueryStores
    /\ QueryInit /\ CleanIdle /\ BatchIdle /\ RestIdle
NextQuery == QEnter \/ QMatch \/ QReturn
SpecQuery == InitQuery /\ [][NextQuery]_vars

\* clean_text applied to a text and again to its result
InitClean == ChunkIdle /\ VecIdle /\ QueryIdle /\ CleanInit /\ BatchIdle /\ RestIdle
NextClean == CleanOnce \/ CleanTwice
SpecClean == InitClean /\ [][NextClean]_vars

\* one call of process_papers_batch on a page of papers
InitBatch ==
    /\ QueryIdle /\ CleanIdle /\ BatchInit /\ RestIdle
    /\ speed = 1
    /\ paper = PbPaper(1, FALSE)
    /\ chunks = << >>
    /\ chunks_metadata = << >>
    /\ pp_outcome = "idle"
    /\ pp_return = None
    /\ pp_fault = "none"
    /\ chunker_called = FALSE
    /\ batch_size \in (IF has_vectorizer THEN 1..MaxPbBatchSize ELSE {1})
    /\ metadata_list = << >>
    /\ vs_pc = "idle"
    /\ total_chunks = 0
    /\ batches = << >>
    /\ batch_no = 0
    /\ processed_chunks = 0
    /\ failed_chunks = 0
    /\ encoder_calls = << >>
    /\ upsert_calls = << >>
    /\ batch_outcomes = << >>
    /\ stats = None
    /\ index_store = EmptyStore
NextBatch ==
    PbPreprocess \/ PbFlush \/ PbCommit \/ PbFinalFlush \/ PbFinalCommit \/ PbSummary
SpecBatch == InitBatch /\ [][NextBatch]_vars

\* one call of load_dataset_todb
InitLoad ==
    /\ ChunkIdle /\ VecIdle /\ QueryIdle /\ CleanIdle /\ BatchIdle
    /\ LoadInit /\ AgentIdle /\ ExistIdle
NextLoad == LdLoad \/ LdCommit \/ LdFinalCommit \/ LdSummary

\* two agents, constructed and used in any order
InitAgent ==
    /\ ChunkIdle /\ VecIdle /\ QueryIdle /\ CleanIdle /\ BatchIdle
    /\ LoadIdle /\ AgentIdle /\ ExistIdle
NextAgent ==
    \E a \in Agents :
        AgConstruct(a) \/ AgQuery(a) \/ AgGetChatHistory(a) \/ AgClearChatHistory(a)
SpecAgent == InitAgent /\ [][NextAgent]_vars

\* one call of process_existing_papers
InitExist ==
    /\ ChunkIdle /\ VecIdle /\ QueryIdle /\ CleanIdle /\ BatchIdle
    /\ LoadIdle /\ AgentIdle /\ ExistInit
NextExist == ExEnter \/ ExIteration \/ ExReturn
SpecExist == InitExist /\ [][NextExist]_vars

\* the same call, which as a running function always takes its next step
SpecExistFair == SpecExist /\ WF_vars(NextExist)

\* one call of either function that commits to the relational database
InitPersist == InitBatch \/ InitLoad
NextPersist == NextBatch \/ NextLoad
SpecPersist == InitPersist /\ [][NextPersist]_vars

-----------------------------------------------------------------------------
(* Properties of build_chunk_metadata and preprocess_paper (Spec) *)

\* C1: in every non-empty chunk list built by build_chunk_metadata the first
\* record has an empty prechunk_id, the last an empty postchunk_id, every
\* other prechunk_id is the id of the record before and every other
\* postchunk_id is the id of the record after.
C1_NeighborLinks ==
    LET md == chunks_metadata
        n  == Len(md)
    IN  n >= 1 =>
            /\ md[1].prechunk_id = << >>
            /\ md[n].postchunk_id = << >>
            /\ \A k \in 2..n : md[k].prechunk_id = md[k - 1].id
            /\ \A k \in 1..(n - 1) : md[k].postchunk_id = md[k + 1].id

C1_Witness == Len(chunks_metadata) >= 3

DigitValue(c) == CHOOSE d \in 0..9 : DigitChars[d + 1] = c

IsDigit(c) == \E d \in 0..9 : DigitChars[d + 1] = c

\* the number a string of decimal digits denotes
RECURSIVE ParseNat(_)
ParseNat(s) ==
    IF Len(s) = 0 THEN 0
    ELSE 10 * ParseNat(SubSeq(s, 1, Len(s) - 1)) + DigitValue(s[Len(s)])

\* s is the canonical decimal writing of n
IsDecimalOf(s, n) ==
    /\ Len(s) >= 1
    /\ \A k \in 1..Len(s) : IsDigit(s[k])
    /\ Len(s) > 1 => s[1] # "0"
    /\ ParseNat(s) = n

\* C2: the id of the record at zero-based position i is the paper's arxiv_id,
\* a "#", and the decimal writing of i; ordinals strictly increase along the
\* list and no two records of the paper share an id.
C2_ChunkIds ==
    LET md == chunks_metadata
        a  == paper.arxiv_id
    IN  /\ \A k \in 1..Len(md) :
            /\ Len(md[k].id) >= Len(a) + 2
            /\ SubSeq(md[k].id, 1, Len(a)) = a
            /\ md[k].id[Len(a) + 1] = "#"
            /\ IsDecimalOf(SubSeq(md[k].id, Len(a) + 2, Len(md[k].id)), k - 1)
        /\ \A j, k \in 1..Len(md) :
            j < k => /\ md[j].chunk_index < md[k].chunk_index
                     /\ md[j].id # md[k].id

C2_Witness == Len(chunks_metadata) >= 11

\* the sum of token_count over records md[1..k]
RECURSIVE TokenSumUpTo(_, _)
TokenSumUpTo(md, k) ==
    IF k = 0 THEN 0 ELSE TokenSumUpTo(md, k - 1) + Get(md[k].token_count)

\* C3: when preprocess_paper has returned a chunk list, the paper's
\* chunk_count is the number of returned records and its total_tokens is the
\* sum of their token_count.
C3_PaperCounters ==
    pp_outcome = "returned" =>
        /\ ~IsNone(pp_return)
        /\ paper.chunk_count = Some(Len(Get(pp_return)))
        /\ paper.total_tokens = Some(TokenSumUpTo(Get(pp_return), Len(Get(pp_return))))

C3_Witness ==
    /\ pp_outcome = "returned"
    /\ Len(Get(pp_return)) >= 2
    /\ paper.total_tokens = Some(4)

-----------------------------------------------------------------------------
(* Properties of vectorize_and_store (SpecVec) *)

\* ceil(n / b) for b >= 1
CeilDiv(n, b) == (n + b - 1) \div b

\* the batch (1-based) that holds the record at position p (1-based)
BatchOf(p) == ((p - 1) \div batch_size) + 1

\* C4: the encoder is called once per loop iteration; when the call has
\* returned it was called ceil(N/B) times, every call but the last with
\* exactly B texts and the last with the remaining ones.
C4_EncoderCalls ==
    LET N == Len(metadata_list)
        B == batch_size
        c == encoder_calls
    IN  /\ Len(c) = Len(batch_outcomes)
        /\ vs_pc = "done" =>
            /\ Len(c) = CeilDiv(N, B)
            /\ \A k \in 1..(Len(c) - 1) : Len(c[k]) = B
            /\ Len(c) >= 1 => /\ Len(c[Len(c)]) = N - (Len(c) - 1) * B
                               /\ Len(c[Len(c)]) \in 1..B

C4_Witness ==
    /\ vs_pc = "done"
    /\ Len(metadata_list) = 3
    /\ batch_size = 2
    /\ Len(encoder_calls) = 2
    /\ Len(encoder_calls[1]) = 2
    /\ Len(encoder_calls[2]) = 1

\* the number of records in the iterations 1..k that ended with a failure
RECURSIVE FailedSizeUpTo(_)
FailedSizeUpTo(k) ==
    IF k = 0 THEN 0
    ELSE FailedSizeUpTo(k - 1)
         + (IF batch_outcomes[k] = "ok" THEN 0 ELSE Len(encoder_calls[k]))

\* C5: whatever batches fail, the call never ends by raising; the failed
\* counter is the total size of the failed batches, and the returned
\* statistics have total_chunks = N and processed_chunks + failed_chunks = N.
C5_StatsAddUp ==
    /\ vs_pc \in {"start", "loop", "done"}
    /\ vs_pc \in {"loop", "done"} => failed_chunks = FailedSizeUpTo(Len(batch_outcomes))
    /\ (vs_pc = "loop" /\ batch_no = Len(batches)) => ENABLED VsReturn
    /\ vs_pc = "done" =>
        /\ ~IsNone(stats)
        /\ Get(stats).total_chunks = Len(metadata_list)
        /\ Get(stats).processed_chunks + Get(stats).failed_chunks = Len(metadata_list)
        /\ Get(stats).failed_chunks = FailedSizeUpTo(Len(batch_outcomes))

C5_Witness ==
    /\ vs_pc = "done"
    /\ Get(stats).processed_chunks > 0
    /\ \E j, k \in 1..Len(batch_outcomes) :
        /\ batch_outcomes[j] = "encoder_raises"
        /\ batch_outcomes[k] = "upsert_raises"
        /\ Len(encoder_calls[j]) >= 2

\* C6: when the call has returned, every batch was attempted whatever the
\* earlier ones did, and every record of a batch whose own encoder call and
\* upsert succeeded was upserted, is in the index and is counted in
\* processed_chunks.
C6_LaterBatchesRun ==
    vs_pc = "done" =>
        LET N  == Len(metadata_list)
            ok == { p \in 1..N : batch_outcomes[BatchOf(p)] = "ok" }
        IN  /\ Len(batch_outcomes) = CeilDiv(N, batch_size)
            /\ \A p \in ok :
                /\ metadata_list[p].id \in DOMAIN index_store
                /\ \E u \in 1..Len(upsert_calls) :
                       \E v \in 1..Len(upsert_calls[u]) :
                           upsert_calls[u][v].id = metadata_list[p].id
            /\ Get(stats).processed_chunks = Cardinality(ok)

C6_Witness ==
    /\ vs_pc = "done"
    /\ batch_outcomes = <<"ok", "encoder_raises", "ok">>
    /\ Get(stats).processed_chunks = Len(metadata_list) - Len(encoder_calls[2])
    /\ Len(upsert_calls) = 2

-----------------------------------------------------------------------------
(* Properties of query (SpecQuery) *)

\* the neighbor id is non-empty and the index holds it
NeighborFound(id) == id # << >> /\ id \in DOMAIN index_store

NeighborContent(id) == IF NeighborFound(id) THEN index_store[id].content ELSE << >>

\* `out` is: the last min(400, len) characters of the predecessor and a space
\* (if the predecessor is found), the match's own content, a space and the
\* first min(400, len) characters of the successor (if the successor is found)
IsSplicedContent(m, out) ==
    LET own     == m.metadata.content
        pre     == m.metadata.prechunk_id
        post    == m.metadata.postchunk_id
        pc      == NeighborContent(pre)
        qc      == NeighborContent(post)
        np      == Min(ContextChars, Len(pc))
        nq      == Min(ContextChars, Len(qc))
        offOwn  == IF NeighborFound(pre) THEN np + 1 ELSE 0
        offPost == offOwn + Len(own) + 1
    IN  /\ Len(out) = offOwn + Len(own) + (IF NeighborFound(post) THEN 1 + nq ELSE 0)
        /\ NeighborFound(pre) =>
            /\ \A k \in 1..np : out[k] = pc[Len(pc) - np + k]
            /\ out[np + 1] = " "
        /\ \A k \in 1..Len(own) : out[offOwn + k] = own[k]
        /\ NeighborFound(post) =>
            /\ out[offPost] = " "
            /\ \A k \in 1..nq : out[offPost + k] = qc[k]

\* C7: with include_context every entry's content is the match's content with
\* the found neighbors' 400-character excerpts spliced around it, separated by
\* single spaces; without include_context it is the match's content unchanged.
C7_ContextExpansion ==
    \A j \in 1..Len(matches) :
        IF include_context
        THEN IsSplicedContent(results[j], matches[j].content)
        ELSE matches[j].content = results[j].metadata.content

C7_Witness ==
    /\ q_pc = "done"
    /\ include_context
    /\ \E j \in 1..Len(results) :
        /\ NeighborFound(results[j].metadata.prechunk_id)
        /\ NeighborFound(results[j].metadata.postchunk_id)
        /\ Len(NeighborContent(results[j].metadata.prechunk_id)) = 1000
        /\ Len(NeighborContent(results[j].metadata.postchunk_id)) = 1000
        /\ Len(Get(q_return)[j].content)
             = ContextChars + 1 + Len(results[j].metadata.content) + 1 + ContextChars

\* a neighbor id that is set but that the index does not hold
NeighborMissing(id) == id # << >> /\ id \notin DOMAIN index_store

\* C8: a neighbor id missing from the index never makes query raise (it raises
\* only when the encoder, the index query or the fetch raises); the entry is
\* built with that neighbor's excerpt left out and the other neighbor's
\* excerpt, if found, still spliced in.
C8_MissingNeighborSkipped ==
    /\ q_pc = "raised" => q_fault # "none"
    /\ include_context =>
        \A j \in 1..Len(matches) :
            LET own  == results[j].metadata.content
                pre  == results[j].metadata.prechunk_id
                post == results[j].metadata.postchunk_id
                out  == matches[j].content
            IN  /\ NeighborMissing(pre) =>
                    /\ SubSeq(out, 1, Len(own)) = own
                    /\ NeighborFound(post) =>
                        out = own \o << " " >>
                              \o SubSeq(NeighborContent(post), 1,
                                        Min(ContextChars, Len(NeighborContent(post))))
                    /\ ~NeighborFound(post) => out = own
                /\ NeighborMissing(post) =>
                    /\ SubSeq(out, Len(out) - Len(own) + 1, Len(out)) = own
                    /\ NeighborFound(pre) =>
                        Len(out) = Min(ContextChars, Len(NeighborContent(pre)))
                                   + 1 + Len(own)
                    /\ ~NeighborFound(pre) => out = own

C8_Witness ==
    /\ q_pc = "done"
    /\ include_context
    /\ \E j \in 1..Len(results) :
        /\ NeighborMissing(results[j].metadata.prechunk_id)
        /\ NeighborFound(results[j].metadata.postchunk_id)
        /\ Len(Get(q_return)[j].content) > Len(results[j].metadata.content)

\* C9: the returned list has one entry per match the index returned, in the
\* index's order, each with its match's score (and title and metadata).
C9_OrderAndScores ==
    q_pc = "done" =>
        /\ Len(Get(q_return)) = Len(results)
        /\ \A j \in 1..Len(results) :
            /\ Get(q_return)[j].score = results[j].score
            /\ Get(q_return)[j].metadata = results[j].metadata
            /\ Get(q_return)[j].title = results[j].metadata.title

C9_Witness ==
    /\ q_pc = "done"
    /\ include_context
    /\ Len(results) >= 2
    /\ \E j \in 1..Len(results) :
        Get(q_return)[j].content # results[j].metadata.content

-----------------------------------------------------------------------------
(* Properties of clean_text (SpecClean) *)

\* C10: cleaning a cleaned text changes nothing, and the clean text of an
\* empty or None input is the empty string.
C10_CleanTextIdempotent ==
    /\ ~IsNone(ct_twice) => Get(ct_twice) = Get(ct_once)
    /\ (Falsy(ct_input) /\ ~IsNone(ct_once)) => Get(ct_once) = << >>

C10_Witness ==
    /\ ~IsNone(ct_twice)
    /\ ct_input = Some(<<"G", "@", "A">>)
    /\ Get(ct_once) = <<"G", " ", "A">>

-----------------------------------------------------------------------------
(* Properties of the error paths of preprocessing (Spec, SpecBatch) *)

C12_ChunkerErrorPropagates ==
    [][ (chunker_called' /\ pp_fault' = "chunker")
        => /\ pp_outcome' = "raised"
           /\ pp_return' = None
           /\ chunks_metadata' = << >>
           /\ Counters(paper') = Counters(paper) ]_vars

\* the chunker raised on a paper that carried the counters of an earlier call
C12_Witness ==
    /\ pp_fault = "chunker"
    /\ pp_outcome = "raised"
    /\ paper.chunk_count = Some(2)
    /\ paper.total_tokens = Some(4)

\* the papers so far whose preprocessing raised
RaisedPapers == { k \in 1..Len(pb_outcomes) : pb_outcomes[k].outcome = "raised" }

C15_TokenCountNeverNull ==
    /\ \A k \in 1..Len(chunks) :
        /\ ~IsNone(chunks[k].token_count)
        /\ Get(chunks[k].token_count) >= 0
    /\ \A k \in 1..Len(chunks_metadata) :
        /\ ~IsNone(chunks_metadata[k].token_count)
        /\ Get(chunks_metadata[k].token_count) >= 0

-----------------------------------------------------------------------------
(* Properties of process_papers_batch (SpecBatch) *)

\* the places of the upsert log: call number and place in the call's list
UpsertPlaces ==
    UNION { { <<c, k>> : k \in 1..Len(upsert_calls[c]) } : c \in 1..Len(upsert_calls) }

UpsertedAt(pl) == upsert_calls[pl[1]][pl[2]].metadata

\* C14: of two upserted chunks of one document, the one with the smaller
\* chunk_index is in an earlier upsert call, or earlier in the same call.
C14_OrdinalUpsertOrder ==
    \A p1 \in UpsertPlaces, p2 \in UpsertPlaces :
        ( /\ UpsertedAt(p1).arxiv_id = UpsertedAt(p2).arxiv_id
          /\ UpsertedAt(p1).chunk_index < UpsertedAt(p2).chunk_index )
        => \/ p1[1] < p2[1]
           \/ p1[1] = p2[1] /\ p1[2] < p2[2]

\* two documents were upserted, one of them with its two chunks in
\* different upsert calls
C14_Witness ==
    /\ pb_pc = "done"
    /\ Cardinality({ UpsertedAt(pl).arxiv_id : pl \in UpsertPlaces }) = 2
    /\ \E p1 \in UpsertPlaces, p2 \in UpsertPlaces :
        /\ p1[1] < p2[1]
        /\ UpsertedAt(p1).arxiv_id = UpsertedAt(p2).arxiv_id
        /\ UpsertedAt(p1).chunk_index = 0
        /\ UpsertedAt(p2).chunk_index = 1

\* the lists seqs[1..k] one after the other
RECURSIVE FlattenUpTo(_, _)
FlattenUpTo(seqs, k) ==
    IF k = 0 THEN << >> ELSE FlattenUpTo(seqs, k - 1) \o seqs[k]

\* the records the preprocess_paper calls so far returned, in order
ReturnedRecords ==
    FlattenUpTo([k \in 1..Len(pb_outcomes) |->
                    IF pb_outcomes[k].outcome = "returned"
                    THEN Get(pb_outcomes[k].ret) ELSE << >>],
                Len(pb_outcomes))

\* the records handed to vectorize_and_store so far, in order
SubmittedRecords == FlattenUpTo(vs_calls, Len(vs_calls))

\* with a vectorizer, every returned record is handed to vectorize_and_store
\* exactly once by the end of the run
EveryRecordSubmittedOnce ==
    (has_vectorizer /\ pb_pc \in {"final_commit", "summary", "done"}) =>
        SubmittedRecords = ReturnedRecords

\* with a vectorizer, the buffer holds fewer than batch_size records when an
\* iteration of the loop starts
BufferBelowBatchSize ==
    (has_vectorizer /\ pb_pc = "pre") => Len(current_batch_chunks) < pb_batch_size

\* C18 as stated: every returned record is submitted exactly once, the buffer
\* is empty right after each flush (in the loop or after it), and it holds
\* fewer than batch_size records at the start of every iteration.
C18_BufferEmptyAfterEachFlush ==
    /\ EveryRecordSubmittedOnce
    /\ BufferBelowBatchSize
    /\ (has_vectorizer /\ pb_flushed /\ pb_pc \in {"commit", "final_commit"}) =>
           current_batch_chunks = << >>

\* C18 amended: every returned record is submitted exactly once, the buffer
\* is empty right after each flush inside the loop (the flush after the loop
\* leaves it as it is), what is submitted and what is buffered are together
\* the returned records, and the buffer holds fewer than batch_size records at
\* the start of every iteration.
C18_BufferEmptyAfterLoopFlush ==
    /\ EveryRecordSubmittedOnce
    /\ BufferBelowBatchSize
    /\ (has_vectorizer /\ pb_flushed /\ pb_pc = "commit") =>
           current_batch_chunks = << >>
    /\ (has_vectorizer /\ pb_pc \in {"pre", "flush", "commit", "final_flush"}) =>
           SubmittedRecords \o current_batch_chunks = ReturnedRecords

\* batch_size 2: the first paper's two records were flushed in the loop, the
\* second paper's record was flushed after the loop and is still in the buffer
C18_Witness ==
    /\ pb_pc = "done"
    /\ has_vectorizer
    /\ pb_batch_size = 2
    /\ Len(vs_calls) = 2
    /\ Len(vs_calls[1]) = 2
    /\ Len(vs_calls[2]) = 1
    /\ current_batch_chunks = vs_calls[2]

\* C19: in process_papers_batch each paper is counted at most once, so at
\* every point successful + failed is at most the number of papers.
C19_CountersBounded == successful + failed <= Len(pb_papers)

-----------------------------------------------------------------------------
(* Properties of the commits (SpecPersist) *)

\* the step appended a failed commit to the log
CommitFailed(log, logAfter) ==
    /\ Len(logAfter) = Len(log) + 1
    /\ logAfter[Len(logAfter)] = "failed"

\* C16: when a commit fails in process_papers_batch or in load_dataset_todb,
\* what the session changed since the last commit is rolled back, what the
\* database holds from earlier commits is unchanged, and the function goes on:
\* to the next paper when the loop has one, else to the steps after the loop.
C16_CommitFailureRolledBack ==
    [][ /\ CommitFailed(commit_log, commit_log') =>
            /\ db_committed' = db_committed
            /\ \A k \in 1..Len(pb_papers') :
                   Counters(pb_papers'[k]) = db_committed[k]
            /\ pb_i' = pb_i
            /\ pb_pc' = IF pb_pc = "final_commit" THEN "summary"
                        ELSE IF pb_i < Len(pb_papers) THEN "pre" ELSE "final_flush"
        /\ CommitFailed(ld_commit_log, ld_commit_log') =>
            /\ ld_db' = ld_db
            /\ ld_pending' = { }
            /\ ld_i' = ld_i
            /\ ld_pc' = IF ld_pc = "final_commit" THEN "summary"
                        ELSE IF ld_i < Len(ld_dataset) THEN "load" ELSE "final_commit"
      ]_vars

\* process_papers_batch with batch_size 1: the commit after paper 1 went
\* through, the commit after paper 2 failed and paper 2's counters were rolled
\* back while paper 1's stayed in the database
C16_Witness ==
    /\ pb_pc = "done"
    /\ Len(pb_papers) = 2
    /\ Len(commit_log) = 3
    /\ commit_log[1] = "ok"
    /\ commit_log[2] = "failed"
    /\ pb_outcomes[1].outcome = "returned"
    /\ pb_outcomes[2].outcome = "returned"
    /\ db_committed[1] = << Some(2), Some(4) >>
    /\ Counters(pb_papers[2]) = << None, None >>
    /\ db_committed[2] = << None, None >>

-----------------------------------------------------------------------------
(* Properties of RAGAgent (SpecAgent) *)

\* C17: a successful query appends the human message and then the AI message
\* to its own agent's history, a failed query leaves that history as it was,
\* and no query changes the history of another constructed agent.
C17_HistoryPerInstance ==
    [][ \A a \in Agents :
          (ag_last'.op = "query" /\ ag_last'.agent = a /\ ag_list[a] # 0) =>
             /\ ag_list' = ag_list
             /\ ag_last'.ok =>
                    History(a)' = History(a) \o << HumanMessage(ag_last'.input),
                                                  AIMessage(Output(ag_last'.input)) >>
             /\ ~ag_last'.ok => History(a)' = History(a)
             /\ \A b \in Agents \ {a} :
                    ag_list[b] # 0 => History(b)' = History(b)
      ]_vars

-----------------------------------------------------------------------------
(* Properties of process_existing_papers (SpecExist) *)

\* C20: the papers handed to process_papers_batch are never more than
\* total_papers = min(paper count, stop_at), and the returned
\* processed_papers + failed_papers is at most total_papers.
C20_HandedWithinTotal ==
    /\ ex_pc \in {"loop", "stats"} => Handed <= Min(ex_paper_count, stop_at)
    /\ ~IsNone(ex_stats) =>
          /\ Handed <= Min(ex_paper_count, stop_at)
          /\ Get(ex_stats).total_papers = Min(ex_paper_count, stop_at)
          /\ Get(ex_stats).processed_papers + Get(ex_stats).failed_papers
                 <= Get(ex_stats).total_papers

\* the most iterations the paging loop makes from start_offset
IterationBound ==
    LET total == Min(ex_paper_count, stop_at) IN
    IF start_offset < total THEN CeilDiv(total - start_offset, ex_batch_size) ELSE 0

\* C21: every iteration of the paging loop, also one whose page query or
\* batch processing raises, adds batch_size to the offset; the loop makes at
\* most ceil((total_papers - start_offset) / batch_size) iterations (none when
\* start_offset is not below total_papers); and the run ends by returning the
\* statistics.
C21_PagingLoopTerminates ==
    /\ [][ Len(ex_pages') = Len(ex_pages) + 1
            => ex_offset' = ex_offset + ex_batch_size ]_vars
    /\ [](Len(ex_pages) <= IterationBound)
    /\ <>(ex_pc = "done" /\ ~IsNone(ex_stats))

\* three pages of one paper: the page query raised on one, the batch
\* processing on another, and the statistics were returned after the third
C21_Witness ==
    /\ ex_pc = "done"
    /\ ~IsNone(ex_stats)
    /\ ex_batch_size = 1
    /\ Len(ex_pages) = 3
    /\ IterationBound = 3
    /\ ex_pages[1].outcome = "query_error"
    /\ ex_pages[2].outcome = "batch_error"
    /\ ex_pages[3].outcome = "processed"
    /\ ex_offset = start_offset + 3

====
